---- MODULE Spec2Model ----
(***************************************************************************)
(* LAN media server (src/main.py): the file endpoint get_file and the two  *)
(* chunk generators stream_full_file and stream_range.                     *)
(*                                                                         *)
(* Strings are sequences of one-character strings.  An optional string     *)
(* (request.headers.get) is <<>> for None and <<s>> for the string s.      *)
(* A path is a sequence of components, each a string.                      *)
(***************************************************************************)
EXTENDS Integers, Sequences, FiniteSets, TLC

VARIABLES platform, files, pc, filename, range_header, file_size, start,
          end, status, headers, gen

vars == <<platform, files, pc, filename, range_header, file_size, start,
          end, status, headers, gen>>

----------------------------------------------------------------------------
(* Bounds of the model.                                                    *)

MaxFileSize == 4

MaxRangeLen == 4

MaxNameLen == 4

MaxChunkSize == 2

----------------------------------------------------------------------------
(* Strings.                                                                *)

Digits == <<"0", "1", "2", "3", "4", "5", "6", "7", "8", "9">>

IsDigit(c) == \E i \in 1..10 : Digits[i] = c

DigitVal(c) == (CHOOSE i \in 1..10 : Digits[i] = c) - 1

StrsUpTo(alphabet, n) == UNION {[1..k -> alphabet] : k \in 0..n}

RECURSIVE Concat(_)
Concat(ss) == IF ss = <<>> THEN <<>> ELSE Head(ss) \o Concat(Tail(ss))

Min(a, b) == IF a < b THEN a ELSE b

\* str(n) of a Python int, as the f-strings of get_file format it
RECURSIVE StrNat(_)
StrNat(n) == IF n < 10 THEN <<Digits[n + 1]>>
             ELSE StrNat(n \div 10) \o <<Digits[(n % 10) + 1]>>

Str(n) == IF n < 0 THEN <<"-">> \o StrNat(0 - n) ELSE StrNat(n)

\* s.startswith(p)
StartsWith(s, p) == Len(s) >= Len(p) /\ SubSeq(s, 1, Len(p)) = p

\* p in s
Contains(s, p) ==
    \E i \in 1..(Len(s) - Len(p) + 1) : SubSeq(s, i, i + Len(p) - 1) = p

\* s[k:]
SliceFrom(s, k) == SubSeq(s, k + 1, Len(s))

RECURSIVE LStrip(_)
LStrip(s) == IF s # <<>> /\ Head(s) = " " THEN LStrip(Tail(s)) ELSE s

RECURSIVE RStrip(_)
RStrip(s) == IF s # <<>> /\ s[Len(s)] = " "
             THEN RStrip(SubSeq(s, 1, Len(s) - 1)) ELSE s

\* s.strip()
Strip(s) == RStrip(LStrip(s))

\* s.split(sep) for a one-character separator: the list of the pieces
RECURSIVE Split(_, _)
Split(s, sep) ==
    IF \A i \in 1..Len(s) : s[i] # sep THEN <<s>>
    ELSE LET k == CHOOSE i \in 1..Len(s) :
                      s[i] = sep /\ \A j \in 1..(i - 1) : s[j] # sep
         IN  <<SubSeq(s, 1, k - 1)>> \o Split(SliceFrom(s, k), sep)

\* int(tok) raises ValueError unless tok, stripped, is a run of digits
IntRaises(tok) ==
    LET t == Strip(tok) IN t = <<>> \/ \E i \in 1..Len(t) : ~IsDigit(t[i])

RECURSIVE DecVal(_)
DecVal(t) == IF t = <<>> THEN 0
             ELSE 10 * DecVal(SubSeq(t, 1, Len(t) - 1)) + DigitVal(t[Len(t)])

\* int(tok) when it does not raise
IntOf(tok) == DecVal(Strip(tok))

----------------------------------------------------------------------------
(* The filesystem.  The process runs in /w and serves /w/files.  Paths are *)
(* absolute, as sequences of components below "/"; on Windows ("nt") the   *)
(* same tree is drive a:, the drive of the working directory.              *)

NameAlphabet == {"a", ".", "/", ":"}

Letters == {"a"}

RangeAlphabet == {"0", "1", "2", "-", ",", " ", "a"}

DotDot == <<".", ".">>

Cwd == << <<"w">> >>

\* FILES_DIRECTORY = Path("files")
FILES_DIRECTORY == << <<"f", "i", "l", "e", "s">> >>

Root == Cwd \o FILES_DIRECTORY

Directories == { <<>>, Cwd, Root, Root \o << <<"a">> >> }

Media == Root \o << <<"a">>, <<"a">> >>

RegularFiles == { << <<"a">> >>,
                  Cwd \o << <<"a">> >>,
                  Root \o << <<"a", "a">> >>,
                  Media }

\* the bytes of a file of n bytes: every offset holds a different byte
Bytes(n) == [i \in 1..n |-> i]

\* a filesystem whose media file /w/files/a/a has n bytes
FileSystem(n) ==
    [p \in RegularFiles |-> IF p = Media THEN Bytes(n) ELSE Bytes(1)]

\* the components of a path string, as pathlib keeps them: empty and "."
\* components are dropped, ".." is kept
RECURSIVE DropDots(_)
DropDots(parts) ==
    IF parts = <<>> THEN <<>>
    ELSE IF Head(parts) \in {<<>>, <<".">>} THEN DropDots(Tail(parts))
    ELSE <<Head(parts)>> \o DropDots(Tail(parts))

PathParts(name) == DropDots(Split(name, "/"))

\* a Windows path string that starts with a drive, as "a:"
HasDrive(name) == Len(name) >= 2 /\ name[1] \in Letters /\ name[2] = ":"

\* FILES_DIRECTORY / filename, as pathlib joins on the platform os: a right
\* operand with a root replaces the left one, and on Windows so does one
\* with a drive ("a:/x" is absolute, "a:x" is relative to the working
\* directory of drive a:)
JoinPath(os, name) ==
    IF os = "nt" /\ HasDrive(name)
    THEN [absolute |-> StartsWith(SliceFrom(name, 2), <<"/">>),
          parts |-> PathParts(SliceFrom(name, 2))]
    ELSE IF StartsWith(name, <<"/">>)
    THEN [absolute |-> TRUE, parts |-> PathParts(name)]
    ELSE [absolute |-> FALSE, parts |-> FILES_DIRECTORY \o PathParts(name)]

\* the node the operating system reaches from directory cur along parts
RECURSIVE Walk(_, _)
Walk(cur, parts) ==
    IF parts = <<>> THEN [found |-> TRUE, node |-> cur]
    ELSE IF cur \notin Directories THEN [found |-> FALSE, node |-> cur]
    ELSE IF Head(parts) = DotDot
         THEN Walk(SubSeq(cur, 1, Len(cur) - 1), Tail(parts))
    ELSE IF (cur \o <<Head(parts)>>) \in (Directories \cup RegularFiles)
         THEN Walk(cur \o <<Head(parts)>>, Tail(parts))
    ELSE [found |-> FALSE, node |-> cur]

Resolve(path) == Walk(IF path.absolute THEN <<>> ELSE Cwd, path.parts)

\* file_path.is_file()
IsFile(fs, path) == Resolve(path).found /\ Resolve(path).node \in DOMAIN fs

\* file_path.stat().st_size
StatSize(fs, path) == Len(fs[Resolve(path).node])

----------------------------------------------------------------------------
(* get_file: the name check and the Range header.                          *)

\* ".." in filename or filename.startswith("/")
InvalidName(name) == Contains(name, DotDot) \/ StartsWith(name, <<"/">>)

BytesUnit == <<"b", "y", "t", "e", "s", "=">>

\* start_str, end_str = (range_header[6:].strip().split("-") + [""])[:2]
SplitRange(h) ==
    SubSeq(Split(Strip(SliceFrom(h, Len(BytesUnit))), "-") \o << <<>> >>, 1, 2)

\* start = int(start_str) if start_str else 0
ParseStart(start_str) == IF start_str # <<>> THEN IntOf(start_str) ELSE 0

\* ParseEnd with the default end one past the last byte
ParseEndPastLast(end_str, size) ==
    IF end_str # <<>> THEN IntOf(end_str) ELSE size

\* end = int(end_str) if end_str else file_size - 1
ParseEnd(end_str, size) == IF end_str # <<>> THEN IntOf(end_str) ELSE size - 1

\* Unsatisfiable with start == file_size let through
UnsatisfiableOffByOne(s, e, end_str, size) ==
    s > size \/ s < 0 \/ (end_str # <<>> /\ e < s)

\* start >= file_size or start < 0 or (end_str and end < start)
Unsatisfiable(s, e, end_str, size) ==
    s >= size \/ s < 0 \/ (end_str # <<>> /\ e < s)

\* the try block: what it raises, and start and end when it returns
ParseRange(h, size) ==
    LET toks == SplitRange(h)
        s == ParseStart(toks[1])
        e == ParseEnd(toks[2], size)
    IN  IF ~StartsWith(h, BytesUnit)
        THEN [raised |-> "ValueError", start |-> 0, end |-> 0]
        ELSE IF toks[1] # <<>> /\ IntRaises(toks[1])
        THEN [raised |-> "ValueError", start |-> 0, end |-> 0]
        ELSE IF toks[2] # <<>> /\ IntRaises(toks[2])
        THEN [raised |-> "ValueError", start |-> s, end |-> 0]
        ELSE IF Unsatisfiable(s, e, toks[2], size)
        THEN [raised |-> "HTTPException", start |-> s, end |-> e]
        ELSE [raised |-> "none", start |-> s, end |-> e]

\* ExceptStatus with one broad except clause
ExceptStatusBroad(raised) == 416

\* except ValueError: 400; except Exception: 416
ExceptStatus(raised) == IF raised = "ValueError" THEN 400 ELSE 416

\* the headers of the 206 response
RangeHeaders(s, e, size) ==
    [AcceptRanges |-> <<"bytes">>,
     ContentRange |-> <<"bytes ">> \o Str(s) \o <<"-">> \o Str(e)
                        \o <<"/">> \o Str(size),
     ContentLength |-> Str(e - s + 1)]

\* the headers of the 200 response
FullHeaders(size) ==
    [AcceptRanges |-> <<"bytes">>, ContentRange |-> <<>>,
     ContentLength |-> Str(size)]

\* an HTTPException carries none of them (<<>>: the header is not set)
NoHeaders ==
    [AcceptRanges |-> <<>>, ContentRange |-> <<>>, ContentLength |-> <<>>]

----------------------------------------------------------------------------
(* The chunk generators.  gen.state: "created" (not started), "suspended"  *)
(* (at its yield), "exhausted" (returned), "failed" (a read raised),       *)
(* "closed" (close() by the consumer or by finalisation).                  *)

NoGen == [kind |-> "none", state |-> "none", node |-> <<>>, chunk_size |-> 0,
          start |-> 0, end |-> 0, pos |-> 0, remaining |-> 0,
          opens |-> 0, closes |-> 0, reads |-> 0, chunks |-> <<>>]

\* stream_full_file(file_path, chunk_size): the generator object, not started
stream_full_file(node, chunk_size) ==
    [NoGen EXCEPT !.kind = "full", !.state = "created", !.node = node,
                  !.chunk_size = chunk_size]

\* stream_range(file_path, start, end, chunk_size): the same
stream_range(node, s, e, chunk_size) ==
    [NoGen EXCEPT !.kind = "range", !.state = "created", !.node = node,
                  !.chunk_size = chunk_size, !.start = s, !.end = e]

\* with open(file_path, "rb") as f
OpenFile(g) == [g EXCEPT !.opens = @ + 1, !.pos = 0]

\* ExitWith that leaves the file open
ExitWithLeak(g) == g

\* leaving the with block, on any path: f.close()
ExitWith(g) == [g EXCEPT !.closes = @ + 1]

\* f.seek(start); remaining = end - start + 1
SeekStart(g) == [g EXCEPT !.pos = g.start, !.remaining = g.end - g.start + 1]

\* ReadSize that ignores what remains of the range
ReadSizeWholeChunk(chunk_size, remaining) == chunk_size

\* read_size = min(chunk_size, remaining)
ReadSize(chunk_size, remaining) == Min(chunk_size, remaining)

\* f.read(n) at offset pos: n bytes, fewer at the end of the file
FileRead(content, pos, n) ==
    SubSeq(content, pos + 1, Min(pos + n, Len(content)))

\* the generator after f.read returned chunk and the chunk was yielded
Yield(g, chunk) ==
    [g EXCEPT !.state = "suspended", !.reads = @ + 1,
              !.pos = @ + Len(chunk), !.chunks = Append(@, chunk)]

Running(g) == g.state \in {"created", "suspended"}

----------------------------------------------------------------------------
(* The requests.  The name check of get_file precedes its reading of the   *)
(* Range header, so every name is tried with a few headers and the media   *)
(* file's name with every header.                                          *)

None == <<>>

Some(s) == <<s>>

Names == StrsUpTo(NameAlphabet, MaxNameLen)

MediaName == <<"a", "/", "a">>

OtherUnit == <<"i", "t", "e", "m", "s", "=">>

RangeHeaderValues ==
    {BytesUnit \o r : r \in StrsUpTo(RangeAlphabet, MaxRangeLen)}
    \cup {OtherUnit \o r : r \in StrsUpTo(RangeAlphabet, MaxRangeLen - 1)}
    \cup StrsUpTo(RangeAlphabet, MaxRangeLen - 1)

RangeHeaders206 == {BytesUnit \o <<"0", "-">>}

Requests ==
    (Names \X ({None} \cup {Some(h) : h \in RangeHeaders206}))
    \cup ({MediaName} \X ({None} \cup {Some(h) : h \in RangeHeaderValues}))

ChunkSizes == 1..MaxChunkSize

----------------------------------------------------------------------------
(* The state machine: one request, from its arrival to the end of its      *)
(* body stream.                                                            *)

\* where the server runs: the platform and the size of the media file
Environments ==
    ({"posix"} \X (0..MaxFileSize)) \cup ({"nt"} \X {MaxFileSize})

Init ==
    /\ \E env \in Environments :
           platform = env[1] /\ files = FileSystem(env[2])
    /\ pc = "idle"
    /\ filename = <<>>
    /\ range_header = None
    /\ file_size = 0
    /\ start = 0
    /\ end = 0
    /\ status = 0
    /\ headers = NoHeaders
    /\ gen = NoGen

\* raise HTTPException(status_code=code): no body stream
Raise(code) ==
    /\ status' = code
    /\ headers' = NoHeaders
    /\ gen' = NoGen

\* get_file(filename, request) with the Range header hdr; cs is the
\* chunk_size of the generator it creates
GetFile(name, hdr, cs) ==
    /\ pc = "idle"
    /\ pc' = "responded"
    /\ filename' = name
    /\ UNCHANGED <<platform, files>>
    /\ IF InvalidName(name)
       THEN /\ Raise(400)
            /\ UNCHANGED <<range_header, file_size, start, end>>
       ELSE IF ~IsFile(files, JoinPath(platform, name))
       THEN /\ Raise(404)
            /\ UNCHANGED <<range_header, file_size, start, end>>
       ELSE LET path == JoinPath(platform, name)
                size == StatSize(files, path)
                node == Resolve(path).node
            IN  /\ file_size' = size
                /\ range_header' = hdr
                /\ IF hdr # None /\ hdr[1] # <<>>
                   THEN LET r == ParseRange(hdr[1], size)
                        IN  /\ start' = r.start
                            /\ end' = r.end
                            /\ IF r.raised = "none"
                               THEN /\ status' = 206
                                    /\ headers' = RangeHeaders(r.start, r.end, size)
                                    /\ gen' = stream_range(node, r.start, r.end, cs)
                               ELSE Raise(ExceptStatus(r.raised))
                   ELSE /\ status' = 200
                        /\ headers' = FullHeaders(size)
                        /\ gen' = stream_full_file(node, cs)
                        /\ UNCHANGED <<start, end>>

Arrive ==
    /\ pc = "idle"
    /\ \E rq \in Requests : \E cs \in ChunkSizes : GetFile(rq[1], rq[2], cs)

Rest == <<platform, files, pc, filename, range_header, file_size, start, end,
          status, headers>>

\* the generator of stream_range up to its loop test: started on the
\* first next()
RangeAtLoop(g) == IF g.state = "created" THEN SeekStart(OpenFile(g)) ELSE g

\* next() on the stream_range generator: runs to the next yield or to the end
RangeNext ==
    /\ gen.kind = "range" /\ Running(gen)
    /\ LET g == RangeAtLoop(gen)
           chunk == FileRead(files[g.node], g.pos,
                             ReadSize(g.chunk_size, g.remaining))
       IN  gen' = IF g.remaining > 0
                  THEN IF chunk = <<>>
                       THEN ExitWith([g EXCEPT !.state = "exhausted",
                                               !.reads = @ + 1])
                       ELSE [Yield(g, chunk) EXCEPT
                                !.remaining = @ - Len(chunk)]
                  ELSE ExitWith([g EXCEPT !.state = "exhausted"])
    /\ UNCHANGED Rest

\* the same next(), f.read raising OSError: the with block is left
RangeReadError ==
    /\ gen.kind = "range" /\ Running(gen)
    /\ RangeAtLoop(gen).remaining > 0
    /\ gen' = ExitWith([RangeAtLoop(gen) EXCEPT !.state = "failed",
                                                !.reads = @ + 1])
    /\ UNCHANGED Rest

FullAtLoop(g) == IF g.state = "created" THEN OpenFile(g) ELSE g

\* next() on the stream_full_file generator
FullNext ==
    /\ gen.kind = "full" /\ Running(gen)
    /\ LET g == FullAtLoop(gen)
           chunk == FileRead(files[g.node], g.pos, g.chunk_size)
       IN  gen' = IF chunk = <<>>
                  THEN ExitWith([g EXCEPT !.state = "exhausted",
                                          !.reads = @ + 1])
                  ELSE Yield(g, chunk)
    /\ UNCHANGED Rest

FullReadError ==
    /\ gen.kind = "full" /\ Running(gen)
    /\ gen' = ExitWith([FullAtLoop(gen) EXCEPT !.state = "failed",
                                               !.reads = @ + 1])
    /\ UNCHANGED Rest

\* close() on the generator (the consumer gave up, or the generator is
\* finalised): GeneratorExit at the yield leaves the with block; a
\* generator that never started has opened nothing
GenClose ==
    /\ gen.kind # "none" /\ Running(gen)
    /\ gen' = IF gen.state = "suspended"
              THEN ExitWith([gen EXCEPT !.state = "closed"])
              ELSE [gen EXCEPT !.state = "closed"]
    /\ UNCHANGED Rest

Consume == RangeNext \/ RangeReadError \/ FullNext \/ FullReadError \/ GenClose

Next == Arrive \/ Consume

Spec == Init /\ [][Next]_vars

\* the server keeps iterating the body until it ends, fails or is dropped
FairSpec == Spec /\ WF_vars(Consume)

----------------------------------------------------------------------------
(* The properties.                                                         *)

Max(a, b) == IF a > b THEN a ELSE b

\* the Range header value "bytes=" followed by rest
Bytes_(rest) == Some(BytesUnit \o rest)

Dash == <<"-">>

ContentRangeOf(s, e, size) ==
    <<"bytes ">> \o Str(s) \o Dash \o Str(e) \o <<"/">> \o Str(size)

\* the bytes the body stream has yielded so far
Body == Concat(gen.chunks)

\* the bytes of the file the response streams
Served == files[gen.node]

\* C1: every 206 response has 0 <= start <= end < fileSize, writes that
\* start and end into Content-Range, and has Content-Length end-start+1
C1_RangeWithinFile ==
    status = 206 =>
        /\ 0 <= start /\ start <= end /\ end < file_size
        /\ headers.ContentRange = ContentRangeOf(start, end, file_size)
        /\ headers.ContentLength = Str(end - start + 1)

\* C2: bytes=N- with 0 <= N < fileSize is answered 206 with the interval
\* (N, fileSize-1), Content-Range bytes N-(fileSize-1)/fileSize and
\* Content-Length fileSize-N, and its body is the file from offset N on
C2_OpenEndedRange ==
    \A N \in 0..MaxFileSize :
        (range_header = Bytes_(Str(N) \o Dash) /\ N < file_size) =>
            /\ status = 206
            /\ start = N /\ end = file_size - 1
            /\ headers.ContentRange = ContentRangeOf(N, file_size - 1, file_size)
            /\ headers.ContentLength = Str(file_size - N)
            /\ gen.kind = "range"
            /\ gen.state = "exhausted" => Body = SubSeq(Served, N + 1, file_size)

C2_Witness ==
    /\ range_header = Bytes_(<<"1", "-">>)
    /\ file_size = 3
    /\ status = 206
    /\ headers.ContentRange = <<"bytes ", "1", "-", "2", "/", "3">>
    /\ gen.state = "exhausted"
    /\ Body = <<2, 3>>

\* C3: bytes=-N on a file of size S > 0 is answered 206 with the last N
\* bytes: start = max(0, S-N), end = S-1
C3_SuffixRange ==
    \A N \in 1..(MaxFileSize + 1) :
        (range_header = Bytes_(Dash \o Str(N)) /\ file_size > 0) =>
            /\ status = 206
            /\ start = Max(0, file_size - N)
            /\ end = file_size - 1

\* C4: a bytes= request with numeric tokens whose start is >= fileSize
\* (any such request when the file is empty) is answered 416, never 206
\* or 400, and streams nothing
C4_StartBeyondFile ==
    range_header # None =>
        LET h == range_header[1]
            Numeral(t) == \E M \in 0..(MaxFileSize + 1) : t = Str(M)
        IN  (\/ \E N \in file_size..(MaxFileSize + 1) :
                   LET unit == BytesUnit \o Str(N) \o Dash
                       tail == SliceFrom(h, Len(unit))
                   IN  StartsWith(h, unit) /\ (tail = <<>> \/ Numeral(tail))
             \/ /\ file_size = 0
                /\ StartsWith(h, BytesUnit \o Dash)
                /\ Numeral(SliceFrom(h, Len(BytesUnit) + 1))) =>
                status = 416 /\ gen = NoGen

C4_Witness ==
    /\ range_header = Bytes_(<<"2", "-">>)
    /\ file_size = 2
    /\ status = 416
    /\ gen = NoGen

ValidRange(g) == 0 <= g.start /\ g.start <= g.end /\ g.end < Len(files[g.node])

IsPrefix(p, q) == Len(p) <= Len(q) /\ SubSeq(q, 1, Len(p)) = p

\* C5: for a valid range the chunks of stream_range, each of at most
\* chunk_size bytes, concatenate to the file's bytes at offsets start..end
\* and no more; the chunks of stream_full_file concatenate to the file
C5_StreamedBytes ==
    /\ (gen.kind = "range" /\ ValidRange(gen)) =>
          /\ \A i \in 1..Len(gen.chunks) :
                 Len(gen.chunks[i]) \in 1..gen.chunk_size
          /\ IsPrefix(Body, SubSeq(Served, gen.start + 1, gen.end + 1))
          /\ gen.state = "exhausted" =>
                 /\ Body = SubSeq(Served, gen.start + 1, gen.end + 1)
                 /\ Len(Body) = gen.end - gen.start + 1
    /\ gen.kind = "full" =>
          /\ \A i \in 1..Len(gen.chunks) :
                 Len(gen.chunks[i]) \in 1..gen.chunk_size
          /\ IsPrefix(Body, Served)
          /\ gen.state = "exhausted" => Body = Served

C5_Witness ==
    /\ gen.kind = "range" /\ ValidRange(gen)
    /\ gen.state = "exhausted"
    /\ Len(gen.chunks) >= 2
    /\ gen.start > 0
    /\ gen.end + 1 < Len(Served)

HasDotDot(name) ==
    \E i \in 1..(Len(name) - 1) : name[i] = "." /\ name[i + 1] = "."

LeadingSlash(name) == name # <<>> /\ name[1] = "/"

\* C6: a name containing ".." or starting with "/" gets 400 whether or not
\* it names a file; a served name is a regular file below the root
\* directory; an accepted name that is no regular file gets 404
C6_NameSafety ==
    pc = "responded" =>
        /\ (HasDotDot(filename) \/ LeadingSlash(filename)) =>
               status = 400 /\ gen = NoGen
        /\ status \in {200, 206} =>
               /\ gen.node \in RegularFiles
               /\ Len(gen.node) > Len(Root)
               /\ SubSeq(gen.node, 1, Len(Root)) = Root
        /\ (/\ ~HasDotDot(filename) /\ ~LeadingSlash(filename)
            /\ ~IsFile(files, JoinPath(platform, filename))) => status = 404

\* C7: bytes=- (both tokens empty) is answered 400 for every file size
C7_BothEmptyMalformed ==
    range_header = Bytes_(Dash) => status = 400

\* a character no integer literal holds
NonNumeric(tok) == \E i \in 1..Len(tok) : ~IsDigit(tok[i]) /\ tok[i] # " "

Released == gen.closes = 1

\* C9: a stream opens one file handle and releases it exactly once on
\* every exit path (end of the chunks, close() by the consumer, a read
\* that raises); nothing is read or yielded after the release; an open
\* handle is eventually released
C9_HandleReleased ==
    /\ [](/\ gen.opens \in {0, 1}
          /\ gen.closes \in {0, gen.opens}
          /\ gen.state = "suspended" => gen.opens = 1 /\ gen.closes = 0
          /\ gen.state \in {"exhausted", "failed"} =>
                 gen.opens = 1 /\ gen.closes = 1
          /\ gen.state = "closed" => gen.closes = gen.opens)
    /\ [][Released =>
             /\ Released'
             /\ gen'.chunks = gen.chunks
             /\ gen'.reads = gen.reads]_vars
    /\ [](gen.opens = 1 => <>Released)

\* the consumer gave up in mid-stream and the handle was released
C9_Witness ==
    /\ gen.state = "closed"
    /\ gen.chunks # <<>>
    /\ gen.opens = 1
    /\ gen.closes = 1

\* C10: the body of a 200 or 206 response, streamed to its end, has as
\* many bytes as the Content-Length header declares
C10_BodyMatchesContentLength ==
    (status \in {200, 206} /\ gen.state = "exhausted") =>
        headers.ContentLength = Str(Len(Body))

====
